---- MODULE Spec2Model ----
(***************************************************************************)
(* Model of qat/qscore/iterators.py: the two search generators             *)
(* (_exhaustive, _dichotomic) and the Driver that runs them against an     *)
(* evaluation function.                                                    *)
(*                                                                         *)
(* Python values are modelled as tagged records so that a dict, a number,  *)
(* None and a tuple stay distinguishable wherever the code hands one back. *)
(***************************************************************************)
EXTENDS Integers, Sequences, FiniteSets, TLC

\* Largest size index of the modelled domain (sizes are 0..MaxEnd).
MaxEnd == 4
\* Scores returned by the evaluation function range over -1..MaxScore.
MaxScore == 2
\* Number of run() calls modelled on one Driver object.
MaxRuns == 2

Sizes == 0..MaxEnd
Scores == (0 - 1)..MaxScore

VARIABLES
    start_size,   \* constructor argument start_size
    end_size,     \* constructor argument end_size
    fun,          \* the evaluation function: the score it returns per index
    iteration,    \* the iteration name last passed to Driver.__init__
    ctor,         \* outcome of the last Driver.__init__: "none", "ok", "ValueError"
    self,         \* the attributes stored on the Driver object
    pc,           \* position inside Driver.run: "idle", "call", "send"
    index,        \* run()'s local variable index
    ret,          \* the value fun(index) returned, about to be sent
    requested,    \* indices the generator yielded to this run(), in order
    evaluated,    \* indices fun was called on during this run(), in order
    fed,          \* <<index the generator waited on, value sent>> per send
    failed,       \* exception raised by fun during this run(), or "none"
    history       \* outcomes of the run() calls made on this Driver

vars == <<start_size, end_size, fun, iteration, ctor, self, pc, index, ret,
          requested, evaluated, fed, failed, history>>

----------------------------------------------------------------------------
\* Python values

PyInt(n) == [type |-> "int", int |-> n]
PyBool(b) == [type |-> "bool", bool |-> b]
PyNone == [type |-> "NoneType"]
PyDict(d) == [type |-> "dict", dict |-> d]
PyTuple(t) == [type |-> "tuple", tuple |-> t]

EmptyDict == [k \in {} |-> PyNone]
\* d[k] = v
Put(d, k, v) == [x \in (DOMAIN d) \cup {k} |-> IF x = k THEN v ELSE d[x]]
\* max(d): the largest key
MaxKey(d) == CHOOSE m \in DOMAIN d : \A k \in DOMAIN d : k <= m

\* v < 0 and v > 0 raise TypeError when v is None
IsNumber(v) == v.type = "int"
Negative(v) == v.type = "int" /\ v.int < 0
Positive(v) == v.type = "int" /\ v.int > 0

----------------------------------------------------------------------------
\* Generators.  A generator object is a record of its frame: the function
\* it runs, its arguments, its locals and the yield it is suspended at
\* ("created" before the first next(), "closed" once it returned or raised).

NewGenerator(fn, s, e) ==
    [fn |-> fn, start_size |-> s, end_size |-> e, at |-> "created",
     index |-> s, lower |-> s, upper |-> e,
     values |-> EmptyDict, value |-> PyNone]

\* What resuming a generator produces: a yielded index, a return value
\* (StopIteration carrying it) or an exception.
Yield(g, at, i) ==
    [gen |-> [g EXCEPT !.at = at], kind |-> "yield", index |-> i,
     value |-> PyNone, exc |-> "none"]
Return(g, v) ==
    [gen |-> [g EXCEPT !.at = "closed"], kind |-> "return", index |-> 0,
     value |-> v, exc |-> "none"]
Raise(g, e) ==
    [gen |-> [g EXCEPT !.at = "closed"], kind |-> "raise", index |-> 0,
     value |-> PyNone, exc |-> e]

\* (success, trace, detail)
Result(success, second, detail) == PyTuple(<<PyBool(success), second, detail>>)

\* all_positive reporting the score of the first size instead of the last
all_positive_first(g, values) ==
    IF DOMAIN values = {}
    THEN Raise(g, "ValueError")
    ELSE Return(g, Result(FALSE, PyDict(values),
                  PyTuple(<<PyBool(TRUE), PyInt(MaxKey(values)), values[g.start_size]>>)))

\* return False, values, (True, max(values), values[max(values)])
all_positive(g, values) ==
    IF DOMAIN values = {}
    THEN Raise(g, "ValueError")
    ELSE Return(g, Result(FALSE, PyDict(values),
                  PyTuple(<<PyBool(TRUE), PyInt(MaxKey(values)), values[MaxKey(values)]>>)))

\* return False, value, (False, start_size)
all_negative(g, value) ==
    Return(g, Result(FALSE, value, PyTuple(<<PyBool(FALSE), PyInt(g.start_size)>>)))

\* crossover reporting the index after the one meant
crossover_next(g, values, i) == Return(g, Result(TRUE, PyDict(values), PyInt(i + 1)))

\* return True, values, i
crossover(g, values, i) == Return(g, Result(TRUE, PyDict(values), PyInt(i)))

\* _exhaustive up to its first yield
exhaustive_start(g) ==
    IF g.start_size <= g.end_size
    THEN Yield([g EXCEPT !.index = g.start_size], "loop", g.start_size)
    ELSE all_positive(g, g.values)

\* _exhaustive resumed with v at "value = yield index"
exhaustive_send(g, v) ==
    LET values == Put(g.values, g.index, v)
        g1 == [g EXCEPT !.value = v, !.values = values]
    IN  IF ~IsNumber(v) THEN Raise(g1, "TypeError")
        ELSE IF Negative(v)
        THEN IF g.index = g.start_size
             THEN all_negative(g1, v)
             ELSE crossover(g1, values, g.index - 1)
        ELSE IF g.index + 1 <= g.end_size
        THEN Yield([g1 EXCEPT !.index = g.index + 1], "loop", g.index + 1)
        ELSE all_positive(g1, values)

\* next_index asking for the lower end of the bracket again
next_index_lower(lower, upper) == lower

\* next_index stepping by one instead of halving the bracket
next_index_linear(lower, upper) == lower + 1

\* next_index = (upper + lower) // 2
next_index(lower, upper) == (upper + lower) \div 2

\* abs(upper - lower)
Abs(n) == IF n < 0 THEN 0 - n ELSE n

\* dichotomic_loop going on until the bracket is empty
dichotomic_loop_zero(g) ==
    IF Abs(g.upper - g.lower) <= 0
    THEN crossover(g, g.values, g.lower)
    ELSE Yield([g EXCEPT !.index = next_index(g.lower, g.upper)], "next",
               next_index(g.lower, g.upper))

\* the head of the "while True" loop of _dichotomic
dichotomic_loop(g) ==
    IF Abs(g.upper - g.lower) <= 1
    THEN crossover(g, g.values, g.lower)
    ELSE Yield([g EXCEPT !.index = next_index(g.lower, g.upper)], "next",
               next_index(g.lower, g.upper))

\* _dichotomic up to its first yield
dichotomic_start(g) ==
    Yield([g EXCEPT !.lower = g.start_size, !.upper = g.end_size], "lower",
          g.start_size)

\* dichotomic_send testing the score of start before the score of end
dichotomic_send_swapped(g, v) ==
    IF g.at = "lower"
    THEN Yield([g EXCEPT !.value = v, !.values = Put(EmptyDict, g.lower, v)],
               "upper", g.upper)
    ELSE IF g.at = "upper"
    THEN LET values == Put(g.values, g.upper, v)
             g1 == [g EXCEPT !.value = v, !.values = values]
         IN  IF ~IsNumber(values[g.lower]) THEN Raise(g1, "TypeError")
             ELSE IF Negative(values[g.lower]) THEN all_negative(g1, v)
             ELSE IF ~IsNumber(values[g.upper]) THEN Raise(g1, "TypeError")
             ELSE IF Positive(values[g.upper]) THEN all_positive(g1, values)
             ELSE dichotomic_loop(g1)
    ELSE LET values == Put(g.values, g.index, v)
             g1 == [g EXCEPT !.values = values]
         IN  IF ~IsNumber(v) THEN Raise(g1, "TypeError")
             ELSE IF Negative(v)
             THEN dichotomic_loop([g1 EXCEPT !.upper = g.index])
             ELSE dichotomic_loop([g1 EXCEPT !.lower = g.index])

\* _dichotomic resumed with v at one of its three yields
dichotomic_send(g, v) ==
    IF g.at = "lower"
    THEN Yield([g EXCEPT !.value = v, !.values = Put(EmptyDict, g.lower, v)],
               "upper", g.upper)
    ELSE IF g.at = "upper"
    THEN LET values == Put(g.values, g.upper, v)
             g1 == [g EXCEPT !.value = v, !.values = values]
         IN  IF ~IsNumber(values[g.upper]) THEN Raise(g1, "TypeError")
             ELSE IF Positive(values[g.upper]) THEN all_positive(g1, values)
             ELSE IF ~IsNumber(values[g.lower]) THEN Raise(g1, "TypeError")
             ELSE IF Negative(values[g.lower]) THEN all_negative(g1, v)
             ELSE dichotomic_loop(g1)
    ELSE LET values == Put(g.values, g.index, v)
             g1 == [g EXCEPT !.values = values]
         IN  IF ~IsNumber(v) THEN Raise(g1, "TypeError")
             ELSE IF Negative(v)
             THEN dichotomic_loop([g1 EXCEPT !.upper = g.index])
             ELSE dichotomic_loop([g1 EXCEPT !.lower = g.index])

GENERATORS == [exhaustive |-> "_exhaustive", dichotomic |-> "_dichotomic"]

\* generator.send(v) on a suspended generator
gen_send(g, v) ==
    IF g.fn = "_exhaustive" THEN exhaustive_send(g, v) ELSE dichotomic_send(g, v)

\* next(generator): starts it, resumes it with None, or finds it closed
gen_next(g) ==
    IF g.at = "closed" THEN Return(g, PyNone)
    ELSE IF g.at = "created"
    THEN IF g.fn = "_exhaustive" THEN exhaustive_start(g) ELSE dichotomic_start(g)
    ELSE gen_send(g, PyNone)

\* the index whose score a suspended generator is waiting for
pending(g) ==
    IF g.fn = "_exhaustive" THEN g.index
    ELSE IF g.at = "lower" THEN g.lower
    ELSE IF g.at = "upper" THEN g.upper
    ELSE g.index

----------------------------------------------------------------------------
\* The Driver

NoAttrs == [a \in {} |-> PyNone]
Names == (DOMAIN GENERATORS) \cup {"binary"}
\* exceptions the evaluation function may raise
FunErrors == {"RuntimeError", "StopIteration"}

Returned(v) == [kind |-> "return", value |-> v]
Raised(e) == [kind |-> "raise", exc |-> e]

Init ==
    /\ start_size \in Sizes
    /\ end_size \in Sizes
    /\ start_size <= end_size
    /\ fun \in [start_size..end_size -> Scores]
    /\ iteration = "none"
    /\ ctor = "none"
    /\ self = NoAttrs
    /\ pc = "idle"
    /\ index = 0
    /\ ret = PyNone
    /\ requested = <<>>
    /\ evaluated = <<>>
    /\ fed = <<>>
    /\ failed = "none"
    /\ history = <<>>

\* Driver.__init__ falling back to _exhaustive for an unknown name
ConstructDefault(it) ==
    /\ pc = "idle"
    /\ iteration' = it
    /\ ctor' = "ok"
    /\ self' = [generator |-> NewGenerator(
                    IF it \in DOMAIN GENERATORS THEN GENERATORS[it] ELSE "_exhaustive",
                    start_size, end_size),
                fun |-> fun]
    /\ index' = 0
    /\ ret' = PyNone
    /\ requested' = <<>>
    /\ evaluated' = <<>>
    /\ fed' = <<>>
    /\ failed' = "none"
    /\ history' = <<>>
    /\ UNCHANGED <<start_size, end_size, fun, pc>>

\* Driver.__init__(fun, it, start_size, end_size) on a new object
Construct(it) ==
    /\ pc = "idle"
    /\ iteration' = it
    /\ IF it \notin DOMAIN GENERATORS
       THEN /\ ctor' = "ValueError"
            /\ self' = NoAttrs
       ELSE /\ ctor' = "ok"
            /\ self' = [generator |-> NewGenerator(GENERATORS[it], start_size, end_size),
                        fun |-> fun]
    /\ index' = 0
    /\ ret' = PyNone
    /\ requested' = <<>>
    /\ evaluated' = <<>>
    /\ fed' = <<>>
    /\ failed' = "none"
    /\ history' = <<>>
    /\ UNCHANGED <<start_size, end_size, fun, pc>>

\* self.fun called on the start size whatever index was requested
call_fun_start(i) == PyInt(self.fun[start_size])

\* self.fun(index)
call_fun(i) == PyInt(self.fun[i])

\* run(): index = next(self.generator)
RunStart ==
    /\ pc = "idle"
    /\ "generator" \in DOMAIN self
    /\ Len(history) < MaxRuns
    /\ LET r == gen_next(self.generator)
       IN  /\ self' = [self EXCEPT !.generator = r.gen]
           /\ evaluated' = <<>>
           /\ fed' = <<>>
           /\ failed' = "none"
           /\ ret' = PyNone
           /\ IF r.kind = "yield"
              THEN /\ index' = r.index
                   /\ requested' = <<r.index>>
                   /\ pc' = "call"
                   /\ history' = history
              ELSE /\ index' = index
                   /\ requested' = <<>>
                   /\ pc' = "idle"
                   /\ history' = Append(history,
                          Raised(IF r.kind = "return" THEN "StopIteration" ELSE r.exc))
    /\ UNCHANGED <<start_size, end_size, fun, iteration, ctor>>

\* run(): self.fun(index) returns a score
RunCall ==
    /\ pc = "call"
    /\ ret' = call_fun(index)
    /\ evaluated' = Append(evaluated, index)
    /\ pc' = "send"
    /\ UNCHANGED <<start_size, end_size, fun, iteration, ctor, self, index,
                   requested, fed, failed, history>>

\* run(): self.fun(index) raises e; "except StopIteration as exp" catches
\* a StopIteration and returns exp.value, anything else propagates
RunCallFails(e) ==
    /\ pc = "call"
    /\ evaluated' = Append(evaluated, index)
    /\ failed' = e
    /\ pc' = "idle"
    /\ history' = Append(history,
          IF e = "StopIteration" THEN Returned(PyNone) ELSE Raised(e))
    /\ UNCHANGED <<start_size, end_size, fun, iteration, ctor, self, index, ret,
                   requested, fed>>

\* run(): index = self.generator.send(<the score>), or the return on
\* StopIteration
RunSend ==
    /\ pc = "send"
    /\ LET r == gen_send(self.generator, ret)
       IN  /\ self' = [self EXCEPT !.generator = r.gen]
           /\ fed' = Append(fed, <<pending(self.generator), ret>>)
           /\ IF r.kind = "yield"
              THEN /\ index' = r.index
                   /\ requested' = Append(requested, r.index)
                   /\ pc' = "call"
                   /\ history' = history
              ELSE /\ index' = index
                   /\ requested' = requested
                   /\ pc' = "idle"
                   /\ history' = Append(history,
                          IF r.kind = "return" THEN Returned(r.value) ELSE Raised(r.exc))
    /\ UNCHANGED <<start_size, end_size, fun, iteration, ctor, ret, evaluated, failed>>

Next ==
    \/ \E it \in Names : Construct(it)
    \/ RunStart
    \/ RunCall
    \/ \E e \in FunErrors : RunCallFails(e)
    \/ RunSend

Spec == Init /\ [][Next]_vars

\* The Driver with an evaluation function that always returns a score.
\* run() is a plain loop of synchronous calls: once it is at the call of
\* fun or at the send, that step is taken.
NextReturns ==
    \/ \E it \in Names : Construct(it)
    \/ RunStart
    \/ RunCall
    \/ RunSend

LiveSpec ==
    /\ Init
    /\ [][NextReturns]_vars
    /\ WF_vars(RunCall)
    /\ WF_vars(RunSend)

----------------------------------------------------------------------------
\* Properties

Success(v) == v.tuple[1].bool
Second(v) == v.tuple[2]
Detail(v) == v.tuple[3]
IsVerdict(v) == v.type = "tuple"

\* the scores do not increase with the size
NonIncreasing == \A i, j \in DOMAIN fun : i <= j => fun[i] >= fun[j]
AllScoresPositive == \A i \in DOMAIN fun : fun[i] > 0

\* the first run() on a Driver has ended and fun raised nothing during it
CleanFirstRunDone == pc = "idle" /\ Len(history) = 1 /\ failed = "none"

Range(seq) == {seq[k] : k \in 1..Len(seq)}
\* <<a, a+1, ..., b>>
Interval(a, b) == [k \in 1..(b - a + 1) |-> a + k - 1]

\* ceil(log2(n)) for n >= 1
CeilLog2(n) == CHOOSE k \in 0..n : 2^k >= n /\ \A j \in 0..(k - 1) : 2^j < n

\* the loop of run() on a generator suspended on request i, for an
\* evaluation function that raises nothing: what the generator ends with
RECURSIVE drive(_, _)
drive(g, i) ==
    LET r == gen_send(g, PyInt(fun[i]))
    IN  IF r.kind = "yield" THEN drive(r.gen, r.index) ELSE r

\* Driver(fun, n, start_size, end_size).run() for such a function
run_of(n) ==
    LET r == gen_next(NewGenerator(GENERATORS[n], start_size, end_size))
    IN  IF r.kind = "yield" THEN drive(r.gen, r.index) ELSE r

\* C1: on a non-increasing score sequence that passes (> 0) at start and
\* fails (<= 0) at end, with start < end, the run of a strategy returns
\* success = True, and its crossover index is the one the run of each
\* strategy returns on the same sequence.
C1_SameCrossover ==
    (CleanFirstRunDone /\ start_size < end_size /\ NonIncreasing
        /\ fun[start_size] > 0 /\ fun[end_size] <= 0)
    => /\ history[1].kind = "return"
       /\ Success(history[1].value)
       /\ \A n \in DOMAIN GENERATORS :
              /\ run_of(n).kind = "return"
              /\ Detail(run_of(n).value) = Detail(history[1].value)

\* C2: whenever run() returns success = True with index i, the returned
\* trace contains i and i+1, with trace[i] > 0 and trace[i+1] <= 0.
C2_SuccessBracketsSignChange ==
    \A k \in 1..Len(history) :
        (history[k].kind = "return" /\ IsVerdict(history[k].value)
            /\ Success(history[k].value))
        => LET trace == Second(history[k].value).dict
               i == Detail(history[k].value).int
           IN  /\ i \in DOMAIN trace
               /\ (i + 1) \in DOMAIN trace
               /\ Positive(trace[i])
               /\ IsNumber(trace[i + 1]) /\ trace[i + 1].int <= 0

\* C3: on a non-increasing score sequence with score(start) <= 0 both
\* strategies return AllNegative (success = False, detail = (False, start)),
\* exhaustive after exactly 1 evaluation, dichotomic after exactly 2.
C3_AllNegative ==
    (CleanFirstRunDone /\ NonIncreasing /\ fun[start_size] <= 0)
    => /\ history[1].kind = "return"
       /\ ~Success(history[1].value)
       /\ Detail(history[1].value) = PyTuple(<<PyBool(FALSE), PyInt(start_size)>>)
       /\ Len(evaluated) = IF iteration = "exhaustive" THEN 1 ELSE 2

\* C4: when every size of [start, end] has a positive score, both strategies
\* return AllPositive, success = False with detail (True, end, score(end));
\* exhaustive has evaluated start, start+1, ..., end and dichotomic only
\* start and end.
C4_AllPositive ==
    (CleanFirstRunDone /\ AllScoresPositive)
    => /\ history[1].kind = "return"
       /\ ~Success(history[1].value)
       /\ Detail(history[1].value) =
              PyTuple(<<PyBool(TRUE), PyInt(end_size), PyInt(fun[end_size])>>)
       /\ iteration = "exhaustive" => evaluated = Interval(start_size, end_size)
       /\ iteration = "dichotomic" => evaluated = <<start_size, end_size>>

\* a dichotomic run over at least three sizes, all positive, whose first and
\* last scores differ, has ended
C4_Witness ==
    /\ CleanFirstRunDone /\ AllScoresPositive
    /\ iteration = "dichotomic"
    /\ end_size - start_size >= 2
    /\ fun[start_size] # fun[end_size]

\* C5: whatever the verdict, the second component of run()'s result is the
\* trace: a mapping whose keys are exactly the evaluated indices, each mapped
\* to the score its evaluation returned.
C5_SecondIsFullTrace ==
    CleanFirstRunDone
    => /\ history[1].kind = "return"
       /\ Second(history[1].value).type = "dict"
       /\ DOMAIN Second(history[1].value).dict = Range(evaluated)
       /\ \A i \in Range(evaluated) :
              Second(history[1].value).dict[i] = PyInt(fun[i])

\* C6: during run() the indices passed to the evaluation function are the
\* indices the strategy requested, in the same order; a request is evaluated
\* before the next request is obtained, none is skipped or invented, and the
\* score sent back for a request is the score fun returned for that index.
C6_EvaluatesWhatIsRequested ==
    /\ Len(evaluated) <= Len(requested)
    /\ \A k \in 1..Len(evaluated) : evaluated[k] = requested[k]
    /\ pc = "call" => Len(requested) = Len(evaluated) + 1
    /\ pc = "send" => Len(requested) = Len(evaluated) /\ Len(fed) + 1 = Len(evaluated)
    /\ (pc = "idle" /\ failed = "none")
           => Len(requested) = Len(evaluated) /\ Len(fed) = Len(evaluated)
    /\ (pc = "idle" /\ failed # "none")
           => Len(requested) = Len(evaluated) /\ Len(fed) + 1 = Len(evaluated)
    /\ Len(fed) <= Len(evaluated)
    /\ \A k \in 1..Len(fed) : fed[k] = <<requested[k], PyInt(fun[requested[k]])>>

\* a run has ended after at least three requests whose scores are not all
\* the same
C6_Witness ==
    /\ pc = "idle" /\ failed = "none"
    /\ Len(fed) >= 3
    /\ \E j, k \in 1..Len(fed) : fed[j][2] # fed[k][2]

\* C7: __init__ with a name other than "exhaustive" or "dichotomic" raises
\* at once: nothing is stored on the Driver, no generator exists and the
\* evaluation function is not called.
C7_UnknownIterationRaises ==
    (iteration # "none" /\ iteration \notin {"exhaustive", "dichotomic"})
    => /\ ctor = "ValueError"
       /\ self = NoAttrs
       /\ pc = "idle"
       /\ requested = <<>>
       /\ evaluated = <<>>
       /\ history = <<>>

\* the construction with "binary" has failed
C7_Witness == iteration = "binary" /\ ctor = "ValueError" /\ self = NoAttrs

\* C8: when a call of the evaluation function raises, whatever it raises,
\* run() ends by raising that same exception, and the call that raised is
\* the last evaluation of the run: the last request, evaluated last.
C8_FailurePropagates ==
    (pc = "idle" /\ failed # "none")
    => /\ history[Len(history)] = Raised(failed)
       /\ Len(evaluated) >= 1
       /\ Len(evaluated) = Len(requested)
       /\ evaluated[Len(evaluated)] = requested[Len(requested)]

\* C9: a second run() on a Driver whose first run() returned a verdict
\* returns a result equal to the first one.
C9_SecondRunSameVerdict ==
    (Len(history) >= 2 /\ history[1].kind = "return" /\ IsVerdict(history[1].value))
    => history[2] = history[1]

\* C10: with start < end a dichotomic run calls the evaluation function at
\* most ceil(log2(end - start)) + 2 times.
C10_DichotomicCallBound ==
    (iteration = "dichotomic" /\ start_size < end_size)
    => Len(evaluated) <= CeilLog2(end_size - start_size) + 2

\* a dichotomic run over a range of width at least 3 has ended having used
\* the whole allowance
C10_Witness ==
    /\ CleanFirstRunDone
    /\ iteration = "dichotomic"
    /\ end_size - start_size >= 3
    /\ Len(evaluated) = CeilLog2(end_size - start_size) + 2

\* the first run() on a Driver has returned success = True
CrossoverReturned ==
    /\ CleanFirstRunDone
    /\ history[1].kind = "return"
    /\ Success(history[1].value)
\* the index it returned
CrossoverIndex == Detail(history[1].value).int

\* C11: when the exhaustive strategy returns the crossover index start + k
\* it has evaluated exactly k + 1 points, and no index beyond the first one
\* that fails (score <= 0).
C11_ExhaustiveKPlusOne ==
    (CrossoverReturned /\ iteration = "exhaustive")
    => /\ Len(evaluated) = (CrossoverIndex - start_size) + 1
       /\ \A a, b \in 1..Len(evaluated) : fun[evaluated[a]] <= 0 => b <= a

\* C11 as amended: when the exhaustive strategy returns the crossover index
\* start + k it has evaluated exactly the k + 2 points start, ..., start+k+1
\* in this order; start+k+1 is the first index with a negative score, so
\* nothing beyond the first negative score is evaluated.
C11_ExhaustiveKPlusTwo ==
    (CrossoverReturned /\ iteration = "exhaustive")
    => /\ evaluated = Interval(start_size, CrossoverIndex + 1)
       /\ Len(evaluated) = (CrossoverIndex - start_size) + 2
       /\ \A a \in 1..Len(evaluated) : fun[evaluated[a]] < 0 <=> a = Len(evaluated)

\* an exhaustive run has returned a crossover at an offset of at least 1
C11_Witness ==
    /\ CrossoverReturned /\ iteration = "exhaustive"
    /\ CrossoverIndex >= start_size + 1

\* no index occurs twice in seq
NoRepeat(seq) == \A a, b \in 1..Len(seq) : seq[a] = seq[b] => a = b

\* C12: within one run, for every start <= end (start = end included) and
\* both strategies, no size index is evaluated more than once.
C12_NoIndexTwice == NoRepeat(evaluated)

\* C12 as amended: within one run no size index is evaluated more than
\* once, for the exhaustive strategy with every start <= end and for the
\* dichotomic strategy with start < end (with start = end it evaluates
\* start twice).
C12_NoIndexTwiceUnlessSinglePoint ==
    (iteration = "exhaustive" \/ start_size < end_size) => NoRepeat(evaluated)

\* a dichotomic run with two bisection steps has ended
C12_Witness ==
    /\ CleanFirstRunDone /\ iteration = "dichotomic"
    /\ Len(evaluated) >= 4

\* run() has returned a verdict
VerdictReturned ==
    /\ pc = "idle"
    /\ Len(history) >= 1
    /\ history[Len(history)].kind = "return"
    /\ IsVerdict(history[Len(history)].value)

\* upper - lower of the generator of the Driver
Width == self.generator.upper - self.generator.lower

\* the send that resumes _dichotomic at the yield of its bisection loop
BisectionStep ==
    /\ pc = "send" /\ pc' # "send"
    /\ self.generator.fn = "_dichotomic"
    /\ self.generator.at = "next"

\* C13: with an evaluation function that always returns a score, monotonic
\* or not, a run() that has started ends with a verdict, for both
\* strategies and every start <= end; every bisection step of the
\* dichotomic strategy is taken on a bracket wider than 1 and makes
\* upper - lower strictly smaller.
C13_RunTerminates ==
    /\ (pc = "call") ~> VerdictReturned
    /\ [][BisectionStep =>
            (Width >= 2 /\ self'.generator.upper - self'.generator.lower < Width)]_vars

\* a dichotomic run on scores that are not monotonic has ended with a
\* verdict after at least two bisection steps
C13_Witness ==
    /\ VerdictReturned /\ iteration = "dichotomic"
    /\ ~NonIncreasing
    /\ Len(fed) >= 4

\* the first run() on the Driver is under way or has just ended
InFirstRun ==
    \/ pc # "idle" /\ Len(history) = 0
    \/ pc = "idle" /\ Len(history) = 1

\* C14: the dichotomic strategy requests start first and end second,
\* whatever score start got, and it tests score(end) > 0 before it looks at
\* score(start): with score(end) > 0 the verdict is AllPositive, also when
\* score(start) is not positive.
C14_StartThenEnd ==
    (iteration = "dichotomic" /\ InFirstRun)
    => /\ Len(requested) >= 1 /\ requested[1] = start_size
       /\ Len(fed) >= 1 => (Len(requested) >= 2 /\ requested[2] = end_size)
       /\ (CleanFirstRunDone /\ fun[end_size] > 0)
            => /\ history[1].kind = "return"
               /\ ~Success(history[1].value)
               /\ Detail(history[1].value) =
                      PyTuple(<<PyBool(TRUE), PyInt(end_size), PyInt(fun[end_size])>>)
               /\ evaluated = <<start_size, end_size>>

\* a dichotomic run has ended on scores negative at start and positive at
\* end
C14_Witness ==
    /\ CleanFirstRunDone /\ iteration = "dichotomic"
    /\ start_size < end_size
    /\ fun[start_size] < 0 /\ fun[end_size] > 0

\* C15: a bisection step on the bracket [lower, upper] has queried
\* floor((lower + upper) / 2); a score <= 0 makes upper that index and
\* leaves lower, any other score makes lower that index and leaves upper;
\* the strategy stops exactly when upper - lower <= 1 and then returns
\* Crossover(lower).
C15_BisectionStepRule ==
    [][BisectionStep =>
        LET g == self.generator
            h == self'.generator
        IN  /\ g.index = (g.lower + g.upper) \div 2
            /\ IF ret.int <= 0
               THEN h.upper = g.index /\ h.lower = g.lower
               ELSE h.lower = g.index /\ h.upper = g.upper
            /\ (pc' = "idle") <=> (h.upper - h.lower <= 1)
            /\ (pc' = "idle") =>
                   /\ history'[Len(history')].kind = "return"
                   /\ Success(history'[Len(history')].value)
                   /\ Detail(history'[Len(history')].value) = PyInt(h.lower)]_vars

\* C16: the exhaustive strategy queries start, start+1, ... in increasing
\* order without gaps, and the first time a score <= 0 comes back for an
\* index j > start it terminates with Crossover(j - 1), the recorded score
\* of j - 1 being positive.
C16_ExhaustiveStopsAtFirstFail ==
    (iteration = "exhaustive" /\ InFirstRun)
    => /\ requested = Interval(start_size, start_size + Len(requested) - 1)
       /\ \A a \in 2..Len(fed) :
              fun[requested[a]] <= 0
              => /\ a = Len(fed)
                 /\ pc = "idle"
                 /\ history[1].kind = "return"
                 /\ Success(history[1].value)
                 /\ Detail(history[1].value) = PyInt(requested[a] - 1)
                 /\ Positive(Second(history[1].value).dict[requested[a] - 1])

\* some run() on the Driver has returned success = True
SomeCrossover ==
    \E k \in 1..Len(history) :
        /\ history[k].kind = "return"
        /\ IsVerdict(history[k].value)
        /\ Success(history[k].value)

\* _dichotomic is inside its bisection loop: suspended at the yield of the
\* loop, or it has left the loop by its return
InBisectionLoop ==
    /\ "generator" \in DOMAIN self
    /\ self.generator.fn = "_dichotomic"
    /\ \/ self.generator.at = "next"
       \/ self.generator.at = "closed" /\ SomeCrossover

\* C17: every index the dichotomic strategy requests lies in [start, end],
\* and in every state of its bisection loop start <= lower < upper <= end,
\* lower and upper are in the trace, the score of lower is one the strategy
\* took as pass and the score of upper one it took as fail.
C17_BracketInvariant ==
    /\ iteration = "dichotomic"
           => \A k \in 1..Len(requested) :
                  start_size <= requested[k] /\ requested[k] <= end_size
    /\ InBisectionLoop
           => LET g == self.generator
              IN  /\ start_size <= g.lower
                  /\ g.lower < g.upper
                  /\ g.upper <= end_size
                  /\ g.lower \in DOMAIN g.values
                  /\ g.upper \in DOMAIN g.values
                  /\ IsNumber(g.values[g.lower]) /\ ~Negative(g.values[g.lower])
                  /\ IsNumber(g.values[g.upper]) /\ ~Positive(g.values[g.upper])
                  /\ g.upper # end_size => Negative(g.values[g.upper])

\* C18: a crossover index i returned with success = True satisfies
\* start <= i < end, for both strategies and every start <= end.
C18_CrossoverInsideRange ==
    \A k \in 1..Len(history) :
        (history[k].kind = "return" /\ IsVerdict(history[k].value)
            /\ Success(history[k].value))
        => /\ start_size <= Detail(history[k].value).int
           /\ Detail(history[k].value).int < end_size

\* what _evaluate_point prints for size i before it returns
\* achieved_ratio - beta: "Success." when achieved_ratio > beta, that is
\* when the score it returns is > 0, "Fail." otherwise
evaluate_point_prints(i) == IF fun[i] > 0 THEN "Success." ELSE "Fail."

\* C19: the size reported as the QScore ("Success. QScore(beta) = info",
\* printed when run() returns success = True) is never a size for which the
\* evaluation function printed "Fail.".
C19_QScoreNeverAFailedSize ==
    CrossoverReturned
    => /\ CrossoverIndex \in Range(evaluated)
       /\ evaluate_point_prints(CrossoverIndex) # "Fail."

====
